---- MODULE Spec2Model ----
(***************************************************************************)
(* Model of src/app.py: the Streamlit driver main() and the three stages   *)
(* it composes (Config.from_env, ModelConverter.setup_repository,          *)
(* ModelConverter.convert_model, ModelConverter.upload_model).             *)
(*                                                                         *)
(* One behaviour is one execution of main().  Strings the code takes apart *)
(* (model ids, user names) are sequences of one-character strings; opaque  *)
(* strings (tokens, messages) are TLA+ strings.  Every external call       *)
(* (registry, network, child process, filesystem) gets its outcome from a  *)
(* small set, and is appended to `trace` in program order.                 *)
(***************************************************************************)
EXTENDS Naturals, Sequences, FiniteSets

\* ------------------------------------------------------------------ bounds
MaxLen == 3          \* longest model id the operator types

\* ------------------------------------------------------------ value domains
None == "None"                       \* Python None (absent secret / key)
Tokens == {None, "", "hf_A", "hf_B"} \* st.secrets / st.session_state values
Chars == {"a", "b", "/"}
NameChars == {"a", "b"}
UserNames == {<<c>> : c \in NameChars}   \* registry account names
AuthorNames == {<<"a">>}             \* values of SPACE_AUTHOR_NAME when set
ExcMsgs == {"", "boom"}              \* str(e) of an exception of a callee
StderrTexts == {"", "OOM"}           \* captured stderr of the child

RECURSIVE StringsUpTo(_)
StringsUpTo(n) ==
  IF n = 0 THEN {<<>>}
  ELSE LET shorter == StringsUpTo(n - 1)
       IN  shorter \cup {Append(s, c) : s \in {t \in shorter : Len(t) = n - 1}, c \in Chars}

ModelIds == StringsUpTo(MaxLen)      \* what st.text_input can return

\* Python truthiness of an Optional[str]
Truthy(t) == t /= None /\ t /= ""

\* outcome of an external call: returns, or raises Exception(msg)
Returns == [raises |-> FALSE, msg |-> ""]
Outcomes == {Returns} \cup {[raises |-> TRUE, msg |-> m] : m \in ExcMsgs}

\* the outcomes to enumerate for an external call: all of them when the call
\* is made, one (which is then not looked at) when it is not
Met(called, outcomes) == IF called THEN outcomes ELSE {CHOOSE o \in outcomes : TRUE}

\* ---------------------------------------------------------------- state
VARIABLES
  system_token,      \* st.secrets.get("HF_TOKEN")
  user_token,        \* st.session_state.get("user_hf_token")
  space_author,      \* os.getenv("SPACE_AUTHOR_NAME"); <<>> when unset or empty
  config,            \* the Config built by from_env, NoConfig before/without it
  repo_path_exists,  \* config.repo_path exists on disk
  archive_exists,    \* ./transformers_<version>.tar.gz exists on disk
  setup_met,         \* what urlretrieve and _extract_archive did in setup_repository
  model_dir,         \* repo_path/models/<input_model_id>: absent, no_readme, readme
  readme_source,     \* who wrote README.md in model_dir: none, child, upload_model
  registry,          \* the repository named output_model_id on the registry:
                     \* absent, existing (before this run), created (by this run)
  input_model_id,    \* value of the model id text input
  trust_remote_code, \* value of the toggle
  reuse,             \* the operator's answer to the same-repository checkbox
  same_repo,         \* main's same_repo
  output_model_id,   \* main's output_model_id
  pc,                \* position of main()
  trace,             \* external calls and UI outputs of this run, in order
  child,             \* the subprocess.run invocations of this run
  proc,              \* behaviour of the child process met by convert_model
  conv_result,       \* return value of convert_model
  conv_raised,       \* exception that left convert_model
  upload_result,     \* return value of upload_model
  upload_steps,      \* outcomes of create_repo / README write / upload_folder met
  error              \* exception caught by main's except clause

vars == <<system_token, user_token, space_author, config, repo_path_exists,
          archive_exists, setup_met, model_dir, readme_source, registry,
          input_model_id, trust_remote_code, reuse, same_repo, output_model_id,
          pc, trace, child, proc, conv_result, conv_raised, upload_result,
          upload_steps, error>>

envVars == <<system_token, user_token, space_author>>
fsVars == <<repo_path_exists, archive_exists, model_dir, readme_source>>
inputVars == <<input_model_id, trust_remote_code, reuse, same_repo, output_model_id>>
convVars == <<child, proc, conv_result, conv_raised>>
uploadVars == <<upload_result, upload_steps>>

\* ------------------------------------------------------------- exceptions
NoError == [type |-> "none", prefix |-> "", msg |-> ""]
Exc(type, prefix, msg) == [type |-> type, prefix |-> prefix, msg |-> msg]

ConfigErrorMsg == "When the user token is not provided, the system token must be set."
TrustErrorMsg == "Trust Remote Code requires your own HuggingFace token."
SetupErrorPrefix == "Failed to setup repository: "

\* ----------------------------------------------------------------- Config
NoConfig == [hf_token |-> None, hf_username |-> <<>>, is_using_user_token |-> FALSE]

\* whoami(token)["name"]: the registry answers with a name or the call raises
WhoamiOutcomes ==
  {[raises |-> FALSE, msg |-> "", name |-> u] : u \in UserNames}
    \cup {[raises |-> TRUE, msg |-> m, name |-> <<>>] : m \in ExcMsgs}

\* from_env with the precedence of the two tokens exchanged
from_env_system_first(sys_tok, usr_tok, author, who) ==
  LET calls_whoami == Truthy(usr_tok) \/ author = <<>>
      hf_token == IF Truthy(sys_tok) THEN sys_tok ELSE usr_tok
      hf_username == IF Truthy(usr_tok) THEN who.name
                     ELSE IF author /= <<>> THEN author ELSE who.name
      events == IF calls_whoami THEN <<"whoami">> ELSE <<>>
  IN  IF calls_whoami /\ who.raises
        THEN [config |-> NoConfig, raised |-> Exc("Exception", "", who.msg),
              events |-> events]
      ELSE IF ~Truthy(hf_token)
        THEN [config |-> NoConfig, raised |-> Exc("ValueError", "", ConfigErrorMsg),
              events |-> events]
      ELSE [config |-> [hf_token |-> hf_token, hf_username |-> hf_username,
                        is_using_user_token |-> Truthy(usr_tok)],
            raised |-> NoError, events |-> events]

\* Config.from_env (lines 34-58).  who is the outcome of the one whoami call
\* the code makes, if it makes one.
from_env(sys_tok, usr_tok, author, who) ==
  LET calls_whoami == Truthy(usr_tok) \/ author = <<>>
      hf_token == IF Truthy(usr_tok) THEN usr_tok ELSE sys_tok
      hf_username == IF Truthy(usr_tok) THEN who.name
                     ELSE IF author /= <<>> THEN author ELSE who.name
      events == IF calls_whoami THEN <<"whoami">> ELSE <<>>
  IN  IF calls_whoami /\ who.raises
        THEN [config |-> NoConfig, raised |-> Exc("Exception", "", who.msg),
              events |-> events]
      ELSE IF ~Truthy(hf_token)
        THEN [config |-> NoConfig, raised |-> Exc("ValueError", "", ConfigErrorMsg),
              events |-> events]
      ELSE [config |-> [hf_token |-> hf_token, hf_username |-> hf_username,
                        is_using_user_token |-> Truthy(usr_tok)],
            raised |-> NoError, events |-> events]

\* ------------------------------------------------------------------- Init
\* no download or extraction was attempted
NotCalled ==
  [called |-> FALSE,
   dl |-> [raises |-> FALSE, msg |-> "", wrote |-> FALSE],
   ex |-> [raises |-> FALSE, msg |-> "", at |-> "none"]]

NotReturned == [returned |-> FALSE, value |-> <<FALSE, "">>]
NoUpload == [returned |-> FALSE, value |-> None]
NoProc == [raises |-> FALSE, msg |-> "", returncode |-> 0, stderr |-> "", ran |-> FALSE]
NoSteps == <<>>

Init ==
  /\ system_token \in Tokens
  /\ user_token \in Tokens
  /\ space_author \in {<<>>} \cup AuthorNames
  /\ config = NoConfig
  /\ repo_path_exists \in BOOLEAN
  /\ archive_exists = FALSE
  /\ setup_met = NotCalled
  /\ model_dir = "absent"
  /\ readme_source = "none"
  /\ registry \in {"absent", "existing"}
  /\ input_model_id = <<>>
  /\ trust_remote_code = FALSE
  /\ reuse = FALSE
  /\ same_repo = FALSE
  /\ output_model_id = <<>>
  /\ pc = "from_env"
  /\ trace = <<>>
  /\ child = <<>>
  /\ proc = NoProc
  /\ conv_result = NotReturned
  /\ conv_raised = NoError
  /\ upload_result = NoUpload
  /\ upload_steps = NoSteps
  /\ error = NoError

\* main's except clause (lines 266-268)
Caught(e, events) ==
  /\ error' = e
  /\ trace' = trace \o events \o <<"st.error:An error occurred">>
  /\ pc' = "done"

\* main line 196
FromEnv ==
  /\ pc = "from_env"
  /\ \E who \in WhoamiOutcomes :
       LET r == from_env(system_token, user_token, space_author, who)
       IN  IF r.raised /= NoError
             THEN /\ Caught(r.raised, r.events)
                  /\ UNCHANGED config
             ELSE /\ config' = r.config
                  /\ trace' = trace \o r.events
                  /\ pc' = "setup"
                  /\ UNCHANGED error
  /\ UNCHANGED <<envVars, setup_met, fsVars, registry, inputVars, convVars, uploadVars>>

\* --------------------------------------------------- setup_repository
\* urlopen(url).getcode() of the tag-shaped URL, or the exception it raises
ProbeOutcomes ==
  {[raises |-> FALSE, msg |-> "", code |-> c] : c \in {200, 404}}
    \cup {[raises |-> TRUE, msg |-> m, code |-> 0] : m \in ExcMsgs}

\* urlretrieve: on success the archive file is on disk; a failed transfer
\* may or may not have left a (partial) file behind
DownloadOutcomes ==
  {[raises |-> FALSE, msg |-> "", wrote |-> TRUE]}
    \cup {[raises |-> TRUE, msg |-> m, wrote |-> w] : m \in ExcMsgs, w \in BOOLEAN}

\* _extract_archive: tar.extractall, then rename of the extracted folder
ExtractOutcomes ==
  {[raises |-> FALSE, msg |-> "", at |-> "none"]}
    \cup {[raises |-> TRUE, msg |-> m, at |-> a] : m \in ExcMsgs, a \in {"extractall", "rename"}}

\* ModelConverter._get_ref_type (lines 68-75)
get_ref_type(probe) ==
  IF probe.raises THEN "heads"
  ELSE IF probe.code = 200 THEN "tags" ELSE "heads"

\* ModelConverter._extract_archive (lines 95-102): the calls made and whether
\* config.repo_path exists afterwards
extract_archive(ex) ==
  [events |-> IF ex.raises /\ ex.at = "extractall"
                THEN <<"tar.extractall">>
                ELSE <<"tar.extractall", "rename">>,
   renamed |-> ~ex.raises,
   raised |-> IF ex.raises THEN Exc("Exception", "", ex.msg) ELSE NoError]

\* archive_path.unlink(missing_ok=True) (line 93)
unlink(exists) == FALSE

\* setup_repository without the early return of lines 79-80
setup_repository_always(path_exists, archive, probe, dl, ex) ==
  LET ref_type == get_ref_type(probe)
      probed == <<"urlopen", "urlretrieve:" \o ref_type>>
      unpacked == extract_archive(ex)
  IN  IF dl.raises
        THEN [repo_path_exists |-> path_exists,
              archive_exists |-> unlink(dl.wrote),
              raised |-> Exc("RuntimeError", SetupErrorPrefix, dl.msg),
              events |-> probed \o <<"unlink">>]
      ELSE [repo_path_exists |-> path_exists \/ unpacked.renamed,
            archive_exists |-> unlink(dl.wrote),
            raised |-> IF unpacked.raised /= NoError
                         THEN Exc("RuntimeError", SetupErrorPrefix, unpacked.raised.msg)
                         ELSE NoError,
            events |-> probed \o unpacked.events \o <<"unlink">>]

\* setup_repository that lets the exception of the failing call through as it is
setup_repository_unwrapped(path_exists, archive, probe, dl, ex) ==
  IF path_exists
    THEN [repo_path_exists |-> path_exists, archive_exists |-> archive,
          raised |-> NoError, events |-> <<>>]
  ELSE
    LET ref_type == get_ref_type(probe)
        probed == <<"urlopen", "urlretrieve:" \o ref_type>>
        unpacked == extract_archive(ex)
    IN  IF dl.raises
          THEN [repo_path_exists |-> FALSE, archive_exists |-> unlink(dl.wrote),
                raised |-> Exc("Exception", "", dl.msg),
                events |-> probed \o <<"unlink">>]
        ELSE [repo_path_exists |-> unpacked.renamed,
              archive_exists |-> unlink(dl.wrote),
              raised |-> unpacked.raised,
              events |-> probed \o unpacked.events \o <<"unlink">>]

\* setup_repository that logs a failure and returns instead of raising
setup_repository_swallow(path_exists, archive, probe, dl, ex) ==
  IF path_exists
    THEN [repo_path_exists |-> path_exists, archive_exists |-> archive,
          raised |-> NoError, events |-> <<>>]
  ELSE
    LET ref_type == get_ref_type(probe)
        probed == <<"urlopen", "urlretrieve:" \o ref_type>>
        unpacked == extract_archive(ex)
    IN  IF dl.raises
          THEN [repo_path_exists |-> FALSE, archive_exists |-> unlink(dl.wrote),
                raised |-> NoError, events |-> probed \o <<"unlink">>]
        ELSE [repo_path_exists |-> unpacked.renamed,
              archive_exists |-> unlink(dl.wrote),
              raised |-> NoError,
              events |-> probed \o unpacked.events \o <<"unlink">>]

\* setup_repository with the archive removed on the success path only
setup_repository_no_finally(path_exists, archive, probe, dl, ex) ==
  IF path_exists
    THEN [repo_path_exists |-> path_exists, archive_exists |-> archive,
          raised |-> NoError, events |-> <<>>]
  ELSE
    LET ref_type == get_ref_type(probe)
        probed == <<"urlopen", "urlretrieve:" \o ref_type>>
        unpacked == extract_archive(ex)
    IN  IF dl.raises
          THEN [repo_path_exists |-> FALSE,
                archive_exists |-> dl.wrote,
                raised |-> Exc("RuntimeError", SetupErrorPrefix, dl.msg),
                events |-> probed]
        ELSE IF unpacked.raised /= NoError
          THEN [repo_path_exists |-> unpacked.renamed,
                archive_exists |-> dl.wrote,
                raised |-> Exc("RuntimeError", SetupErrorPrefix, unpacked.raised.msg),
                events |-> probed \o unpacked.events]
        ELSE [repo_path_exists |-> unpacked.renamed,
              archive_exists |-> unlink(dl.wrote),
              raised |-> NoError,
              events |-> probed \o unpacked.events \o <<"unlink">>]

\* ModelConverter.setup_repository (lines 77-93)
setup_repository(path_exists, archive, probe, dl, ex) ==
  IF path_exists
    THEN [repo_path_exists |-> path_exists, archive_exists |-> archive,
          raised |-> NoError, events |-> <<>>]
  ELSE
    LET ref_type == get_ref_type(probe)
        probed == <<"urlopen", "urlretrieve:" \o ref_type>>
        unpacked == extract_archive(ex)
    IN  IF dl.raises
          THEN [repo_path_exists |-> FALSE,
                archive_exists |-> unlink(dl.wrote),
                raised |-> Exc("RuntimeError", SetupErrorPrefix, dl.msg),
                events |-> probed \o <<"unlink">>]
        ELSE [repo_path_exists |-> unpacked.renamed,
              archive_exists |-> unlink(dl.wrote),
              raised |-> IF unpacked.raised /= NoError
                           THEN Exc("RuntimeError", SetupErrorPrefix, unpacked.raised.msg)
                           ELSE NoError,
              events |-> probed \o unpacked.events \o <<"unlink">>]

\* main line 198
SetupRepository ==
  /\ pc = "setup"
  /\ \E probe \in Met(~repo_path_exists, ProbeOutcomes),
        dl \in Met(~repo_path_exists, DownloadOutcomes) :
     \E ex \in Met(~repo_path_exists /\ ~dl.raises, ExtractOutcomes) :
       LET r == setup_repository(repo_path_exists, archive_exists, probe, dl, ex)
       IN  /\ repo_path_exists' = r.repo_path_exists
           /\ setup_met' = IF repo_path_exists THEN setup_met
                           ELSE [called |-> TRUE, dl |-> dl,
                                 ex |-> IF dl.raises THEN NotCalled.ex ELSE ex]
           /\ archive_exists' = r.archive_exists
           /\ IF r.raised /= NoError
                THEN Caught(r.raised, r.events)
                ELSE /\ trace' = trace \o r.events
                     /\ pc' = "input"
                     /\ UNCHANGED error
  /\ UNCHANGED <<envVars, config, model_dir, readme_source, registry,
                 inputVars, convVars, uploadVars>>

\* ------------------------------------------------------ destination naming
\* str.split("/")
RECURSIVE Split(_)
Split(s) ==
  IF s = <<>> THEN << <<>> >>
  ELSE LET rest == Split(Tail(s))
       IN  IF Head(s) = "/" THEN << <<>> >> \o rest
           ELSE << <<Head(s)>> \o Head(rest) >> \o Tail(rest)

OnnxSuffix == <<"-", "O", "N", "N", "X">>

\* SameRepo without the comparison of the namespaces
SameRepo_unconditional(hf_username, model_id, checkbox) == checkbox

\* main lines 218-223: the checkbox is only offered when the namespaces match
SameRepo(hf_username, model_id, checkbox) ==
  IF hf_username = Split(model_id)[1] THEN checkbox ELSE FALSE

\* main lines 225-230
OutputModelId(hf_username, model_id, same) ==
  LET parts == Split(model_id)
      model_name == parts[Len(parts)]
      base == hf_username \o <<"/">> \o model_name
  IN  IF ~same THEN base \o OnnxSuffix ELSE base

\* main lines 200-232
ReadInputs ==
  /\ pc = "input"
  /\ \E id \in ModelIds :
     \E toggle \in Met(id /= <<>>, BOOLEAN), checkbox \in Met(id /= <<>>, BOOLEAN) :
       IF id = <<>>
         THEN /\ pc' = "done"
              /\ UNCHANGED <<inputVars, trace>>
         ELSE /\ input_model_id' = id
              /\ trust_remote_code' = toggle
              /\ reuse' = checkbox
              /\ same_repo' = SameRepo(config.hf_username, id, checkbox)
              /\ output_model_id' = OutputModelId(config.hf_username, id, same_repo')
              /\ trace' = trace \o (IF toggle THEN <<"st.warning:trust">> ELSE <<>>)
              /\ pc' = "check"
  /\ UNCHANGED <<envVars, setup_met, config, fsVars, registry, convVars, uploadVars, error>>

\* HfApi.repo_exists / HfApi.create_repo(exist_ok=True) as the code relies on
\* them (lines 234, 160)
repo_exists(reg) == reg /= "absent"
create_repo(reg) == IF reg = "absent" THEN "created" ELSE reg

\* the registry is asked for the wrong value of same_repo
QueriesRegistry_inverted(same) == same

\* the registry is asked whatever same_repo is
QueriesRegistry_always(same) == TRUE

\* the early return taken for the wrong value of same_repo
AlreadyConverted_inverted(same, answer) == same /\ answer

\* line 234: `not same_repo and ...` asks the registry only when not same_repo
QueriesRegistry(same) == ~same

\* line 234: the condition of the early return
AlreadyConverted(same, answer) == ~same /\ answer

\* main lines 234-240
CheckExisting ==
  /\ pc = "check"
  /\ \E o \in Met(QueriesRegistry(same_repo), Outcomes) :
       LET asked == QueriesRegistry(same_repo)
           answer == asked /\ ~o.raises /\ repo_exists(registry)
           events == IF ~asked THEN <<>>
                     ELSE IF o.raises THEN <<"repo_exists:raise">>
                     ELSE IF answer THEN <<"repo_exists:True">>
                     ELSE <<"repo_exists:False">>
       IN  IF asked /\ o.raises
             THEN Caught(Exc("Exception", "", o.msg), events)
           ELSE IF AlreadyConverted(same_repo, answer)
             THEN /\ trace' = trace \o events \o <<"st.write:already converted",
                                                   "st.link_button">>
                  /\ pc' = "done"
                  /\ UNCHANGED error
           ELSE /\ trace' = trace \o events \o <<"st.code:url">>
                /\ pc' = "confirm"
                /\ UNCHANGED error
  /\ UNCHANGED <<envVars, setup_met, config, fsVars, registry, inputVars, convVars, uploadVars>>

\* main without the return of line 243: the run goes on whatever the button says
Confirm_unconditional ==
  /\ pc = "confirm"
  /\ \E clicked \in BOOLEAN :
       /\ trace' = IF clicked THEN trace \o <<"st.button:Proceed">> ELSE trace
       /\ pc' = "convert"
  /\ UNCHANGED <<envVars, setup_met, config, fsVars, registry, inputVars, convVars,
                 uploadVars, error>>

\* main lines 242-243
Confirm ==
  /\ pc = "confirm"
  /\ \E clicked \in BOOLEAN :
       IF clicked
         THEN /\ trace' = trace \o <<"st.button:Proceed">>
              /\ pc' = "convert"
         ELSE /\ pc' = "done"
              /\ UNCHANGED trace
  /\ UNCHANGED <<envVars, setup_met, config, fsVars, registry, inputVars, convVars,
                 uploadVars, error>>

\* ------------------------------------------------------------ convert_model
\* behaviour of subprocess.run: it raises (spawn or communication failure),
\* or the child exits with a return code and its stderr is captured
ProcOutcomes ==
  {[raises |-> TRUE, msg |-> m, returncode |-> 0, stderr |-> "", ran |-> TRUE] : m \in ExcMsgs}
    \cup {[raises |-> FALSE, msg |-> "", returncode |-> c, stderr |-> e, ran |-> TRUE] :
            c \in {0, 1}, e \in StderrTexts}

BaseCmd == <<"sys.executable", "-m", "scripts.convert", "--quantize", "--model_id">>

\* _run_conversion_subprocess with the token added to the inherited
\* environment (env={**os.environ, "HF_TOKEN": ...})
run_conversion_subprocess_inherit(cfg, model_id, extra_args) ==
  [cmd |-> [base |-> BaseCmd, model_id |-> model_id,
            extra |-> IF extra_args /= <<>> THEN extra_args ELSE <<>>],
   cwd |-> "repo_path",
   env |-> [HF_TOKEN |-> cfg.hf_token, SPACE_AUTHOR_NAME |-> space_author]]

\* ModelConverter._run_conversion_subprocess (lines 104-128): the invocation
\* handed to subprocess.run
run_conversion_subprocess(cfg, model_id, extra_args) ==
  [cmd |-> [base |-> BaseCmd, model_id |-> model_id,
            extra |-> IF extra_args /= <<>> THEN extra_args ELSE <<>>],
   cwd |-> "repo_path",
   env |-> [HF_TOKEN |-> cfg.hf_token]]

\* the try block with a failed attempt (exception or non-zero exit) made again
convert_model_try_retry(cfg, model_id, trust, p) ==
  IF trust /\ ~cfg.is_using_user_token
    THEN [returned |-> FALSE, value |-> <<FALSE, "">>,
          raised |-> Exc("Exception", "", TrustErrorMsg),
          children |-> <<>>, events |-> <<>>]
  ELSE
    LET invocation == run_conversion_subprocess(
                        cfg, model_id,
                        IF trust THEN <<"--trust_remote_code">> ELSE <<>>)
    IN  IF p.raises
          THEN [returned |-> FALSE, value |-> <<FALSE, "">>,
                raised |-> Exc("Exception", "", p.msg),
                children |-> <<invocation, invocation>>,
                events |-> <<"subprocess.run", "subprocess.run">>]
        ELSE IF p.returncode /= 0
          THEN [returned |-> TRUE, value |-> <<FALSE, p.stderr>>, raised |-> NoError,
                children |-> <<invocation, invocation>>,
                events |-> <<"subprocess.run", "subprocess.run">>]
        ELSE [returned |-> TRUE, value |-> <<TRUE, p.stderr>>, raised |-> NoError,
              children |-> <<invocation>>, events |-> <<"subprocess.run">>]

\* the try block with the check of lines 136-139 made after the child ran
convert_model_try_late_check(cfg, model_id, trust, p) ==
  LET invocation == run_conversion_subprocess(
                      cfg, model_id,
                      IF trust THEN <<"--trust_remote_code">> ELSE <<>>)
  IN  IF p.raises
        THEN [returned |-> FALSE, value |-> <<FALSE, "">>,
              raised |-> Exc("Exception", "", p.msg),
              children |-> <<invocation>>, events |-> <<"subprocess.run">>]
      ELSE IF trust /\ ~cfg.is_using_user_token
        THEN [returned |-> FALSE, value |-> <<FALSE, "">>,
              raised |-> Exc("Exception", "", TrustErrorMsg),
              children |-> <<invocation>>, events |-> <<"subprocess.run">>]
      ELSE [returned |-> TRUE,
            value |-> IF p.returncode /= 0 THEN <<FALSE, p.stderr>>
                      ELSE <<TRUE, p.stderr>>,
            raised |-> NoError,
            children |-> <<invocation>>, events |-> <<"subprocess.run">>]

\* the try block without the check of lines 136-139
convert_model_try_unchecked(cfg, model_id, trust, p) ==
  LET invocation == run_conversion_subprocess(
                      cfg, model_id,
                      IF trust THEN <<"--trust_remote_code">> ELSE <<>>)
  IN  IF p.raises
        THEN [returned |-> FALSE, value |-> <<FALSE, "">>,
              raised |-> Exc("Exception", "", p.msg),
              children |-> <<invocation>>, events |-> <<"subprocess.run">>]
      ELSE [returned |-> TRUE,
            value |-> IF p.returncode /= 0 THEN <<FALSE, p.stderr>>
                      ELSE <<TRUE, p.stderr>>,
            raised |-> NoError,
            children |-> <<invocation>>, events |-> <<"subprocess.run">>]

\* the try block without the return code test of lines 147-148
convert_model_try_any_code(cfg, model_id, trust, p) ==
  IF trust /\ ~cfg.is_using_user_token
    THEN [returned |-> FALSE, value |-> <<FALSE, "">>,
          raised |-> Exc("Exception", "", TrustErrorMsg),
          children |-> <<>>, events |-> <<>>]
  ELSE
    LET invocation == run_conversion_subprocess(
                        cfg, model_id,
                        IF trust THEN <<"--trust_remote_code">> ELSE <<>>)
    IN  IF p.raises
          THEN [returned |-> FALSE, value |-> <<FALSE, "">>,
                raised |-> Exc("Exception", "", p.msg),
                children |-> <<invocation>>, events |-> <<"subprocess.run">>]
        ELSE [returned |-> TRUE, value |-> <<TRUE, p.stderr>>, raised |-> NoError,
              children |-> <<invocation>>, events |-> <<"subprocess.run">>]

\* body of the try block of convert_model (lines 135-150)
convert_model_try(cfg, model_id, trust, p) ==
  IF trust /\ ~cfg.is_using_user_token
    THEN [returned |-> FALSE, value |-> <<FALSE, "">>,
          raised |-> Exc("Exception", "", TrustErrorMsg),
          children |-> <<>>, events |-> <<>>]
  ELSE
    LET invocation == run_conversion_subprocess(
                        cfg, model_id,
                        IF trust THEN <<"--trust_remote_code">> ELSE <<>>)
    IN  IF p.raises
          THEN [returned |-> FALSE, value |-> <<FALSE, "">>,
                raised |-> Exc("Exception", "", p.msg),
                children |-> <<invocation>>, events |-> <<"subprocess.run">>]
        ELSE [returned |-> TRUE,
              value |-> IF p.returncode /= 0 THEN <<FALSE, p.stderr>>
                        ELSE <<TRUE, p.stderr>>,
              raised |-> NoError,
              children |-> <<invocation>>, events |-> <<"subprocess.run">>]

\* convert_model without the except clause of lines 152-153
convert_model_no_except(cfg, model_id, trust, p) ==
  convert_model_try(cfg, model_id, trust, p)

\* ModelConverter.convert_model (lines 130-153): the try block under its
\* except clause
convert_model(cfg, model_id, trust, p) ==
  LET r == convert_model_try(cfg, model_id, trust, p)
  IN  IF r.raised /= NoError
        THEN [r EXCEPT !.returned = TRUE, !.value = <<FALSE, r.raised.msg>>,
                       !.raised = NoError]
        ELSE r

\* what the child can do to the output directory: it creates files, it does
\* not take them away
ChildEffects(dir) ==
  IF dir = "absent" THEN {"absent", "no_readme", "readme"}
  ELSE IF dir = "no_readme" THEN {"no_readme", "readme"}
  ELSE {"readme"}

\* main lines 245-254
Convert ==
  /\ pc = "convert"
  /\ \E p \in Met(~trust_remote_code \/ config.is_using_user_token, ProcOutcomes) :
       LET r == convert_model(config, input_model_id, trust_remote_code, p)
           invoked == r.children /= <<>>
       IN  /\ child' = child \o r.children
           /\ proc' = IF invoked THEN p ELSE proc
           /\ \E d \in (IF invoked THEN ChildEffects(model_dir) ELSE {model_dir}) :
                /\ model_dir' = d
                /\ readme_source' = IF d = "readme" /\ model_dir /= "readme"
                                      THEN "child" ELSE readme_source
           /\ IF r.raised /= NoError
                THEN /\ conv_raised' = r.raised
                     /\ conv_result' = conv_result
                     /\ Caught(r.raised, r.events)
              ELSE IF ~r.value[1]
                THEN /\ conv_result' = [returned |-> TRUE, value |-> r.value]
                     /\ trace' = trace \o r.events \o <<"st.error:Conversion failed">>
                     /\ pc' = "done"
                     /\ UNCHANGED <<conv_raised, error>>
              ELSE /\ conv_result' = [returned |-> TRUE, value |-> r.value]
                   /\ trace' = trace \o r.events \o <<"st.success:Conversion successful">>
                   /\ pc' = "upload"
                   /\ UNCHANGED <<conv_raised, error>>
  /\ UNCHANGED <<envVars, setup_met, config, repo_path_exists, archive_exists, registry,
                 inputVars, uploadVars>>

\* ------------------------------------------------------------- upload_model
FileNotFoundMsg == "No such file or directory"

\* shutil.rmtree(model_folder_path, ignore_errors=True) (line 175)
rmtree(dir) == "absent"

\* write_readme without the os.path.exists test of line 164
write_readme_always(dir, wr) ==
  IF dir = "absent"
    THEN [dir |-> dir, raised |-> Exc("FileNotFoundError", "", FileNotFoundMsg),
          events |-> <<"open:README.md">>,
          outcomes |-> <<[raises |-> TRUE, msg |-> FileNotFoundMsg]>>]
  ELSE IF wr.raises
    THEN [dir |-> dir, raised |-> Exc("Exception", "", wr.msg),
          events |-> <<"open:README.md">>, outcomes |-> <<wr>>]
  ELSE [dir |-> "readme", raised |-> NoError,
        events |-> <<"open:README.md", "write:README.md">>, outcomes |-> <<wr>>]

\* lines 162-166: README.md is written only when the directory has none;
\* open() fails when the directory itself is missing
write_readme(dir, wr) ==
  IF dir = "readme"
    THEN [dir |-> dir, raised |-> NoError, events |-> <<>>, outcomes |-> <<>>]
  ELSE IF dir = "absent"
    THEN [dir |-> dir, raised |-> Exc("FileNotFoundError", "", FileNotFoundMsg),
          events |-> <<"open:README.md">>,
          outcomes |-> <<[raises |-> TRUE, msg |-> FileNotFoundMsg]>>]
  ELSE IF wr.raises
    THEN [dir |-> dir, raised |-> Exc("Exception", "", wr.msg),
          events |-> <<"open:README.md">>, outcomes |-> <<wr>>]
  ELSE [dir |-> "readme", raised |-> NoError,
        events |-> <<"open:README.md", "write:README.md">>, outcomes |-> <<wr>>]

\* body of the try block of upload_model (lines 160-171)
upload_model_try(dir, cr, wr, up) ==
  IF cr.raises
    THEN [value |-> None, raised |-> Exc("Exception", "", cr.msg), dir |-> dir,
          created |-> FALSE, events |-> <<"create_repo">>, outcomes |-> <<cr>>]
  ELSE
    LET w == write_readme(dir, wr)
    IN  IF w.raised /= NoError
          THEN [value |-> None, raised |-> w.raised, dir |-> w.dir, created |-> TRUE,
                events |-> <<"create_repo">> \o w.events,
                outcomes |-> <<cr>> \o w.outcomes]
        ELSE IF up.raises
          THEN [value |-> None, raised |-> Exc("Exception", "", up.msg), dir |-> w.dir,
                created |-> TRUE,
                events |-> <<"create_repo">> \o w.events \o <<"upload_folder:" \o w.dir>>,
                outcomes |-> <<cr>> \o w.outcomes \o <<up>>]
        ELSE [value |-> None, raised |-> NoError, dir |-> w.dir, created |-> TRUE,
              events |-> <<"create_repo">> \o w.events \o <<"upload_folder:" \o w.dir>>,
              outcomes |-> <<cr>> \o w.outcomes \o <<up>>]

\* upload_model without the except clause of lines 172-173
upload_model_no_except(dir, cr, wr, up) ==
  LET r == upload_model_try(dir, cr, wr, up)
  IN  [value |-> r.value,
       raised |-> r.raised,
       dir |-> rmtree(r.dir),
       wrote |-> r.dir = "readme" /\ dir /= "readme",
       created |-> r.created,
       events |-> r.events \o <<"rmtree">>,
       outcomes |-> r.outcomes]

\* upload_model with the directory removed on the success path only
upload_model_no_finally(dir, cr, wr, up) ==
  LET r == upload_model_try(dir, cr, wr, up)
  IN  [value |-> IF r.raised /= NoError THEN r.raised.msg ELSE r.value,
       raised |-> NoError,
       dir |-> IF r.raised /= NoError THEN r.dir ELSE rmtree(r.dir),
       wrote |-> r.dir = "readme" /\ dir /= "readme",
       created |-> r.created,
       events |-> r.events \o (IF r.raised /= NoError THEN <<>> ELSE <<"rmtree">>),
       outcomes |-> r.outcomes]

\* ModelConverter.upload_model (lines 155-175): the try block under its
\* except and finally clauses
upload_model(dir, cr, wr, up) ==
  LET r == upload_model_try(dir, cr, wr, up)
  IN  [value |-> IF r.raised /= NoError THEN r.raised.msg ELSE r.value,
       raised |-> NoError,
       dir |-> rmtree(r.dir),
       wrote |-> r.dir = "readme" /\ dir /= "readme",
       created |-> r.created,
       events |-> r.events \o <<"rmtree">>,
       outcomes |-> r.outcomes]

\* main lines 256-264
Upload ==
  /\ pc = "upload"
  /\ \E cr \in Outcomes :
     \E wr \in Met(~cr.raises /\ model_dir = "no_readme", Outcomes) :
     \E up \in Met(~cr.raises /\ (model_dir = "readme"
                                   \/ (model_dir = "no_readme" /\ ~wr.raises)), Outcomes) :
       LET r == upload_model(model_dir, cr, wr, up)
       IN  /\ model_dir' = r.dir
           /\ readme_source' = IF r.dir = "absent" THEN "none"
                               ELSE IF r.wrote THEN "upload_model" ELSE readme_source
           /\ registry' = IF r.created THEN create_repo(registry) ELSE registry
           /\ upload_steps' = r.outcomes
           /\ IF r.raised /= NoError
                THEN /\ Caught(r.raised, r.events)
                     /\ UNCHANGED upload_result
              ELSE /\ upload_result' = [returned |-> TRUE, value |-> r.value]
                   /\ trace' = trace \o r.events \o
                         (IF Truthy(r.value)
                            THEN <<"st.error:Upload failed">>
                            ELSE <<"st.success:Upload successful", "st.link_button">>)
                   /\ pc' = "done"
                   /\ UNCHANGED error
  /\ UNCHANGED <<envVars, setup_met, config, repo_path_exists, archive_exists, inputVars, convVars>>

Next ==
  \/ FromEnv
  \/ SetupRepository
  \/ ReadInputs
  \/ CheckExisting
  \/ Confirm
  \/ Convert
  \/ Upload

Spec == Init /\ [][Next]_vars

\* ------------------------------------------------------------------ claims
Range(seq) == {seq[i] : i \in DOMAIN seq}
Happened(e) == e \in Range(trace)

\* main has called convert_model and the call is over
ConvertCalled == Happened("st.button:Proceed") /\ pc /= "convert"
\* main has called upload_model and the call is over
UploadCalled == Happened("st.success:Conversion successful") /\ pc /= "upload"

\* C1: with no operator token and no system token, from_env fails with the
\* ValueError about the missing system token and builds no Config.
C1_NoCredentialIsConfigError ==
  (pc /= "from_env" /\ ~Truthy(user_token) /\ ~Truthy(system_token))
    => /\ config = NoConfig
       /\ pc = "done"
       /\ error.type = "ValueError"
       /\ error.msg = ConfigErrorMsg

\* C2: convert_model called with trust_remote_code while the token is not the
\* operator's returns (False, the token requirement message) and starts no
\* subprocess.
C2_TrustWithoutUserTokenRejected ==
  (ConvertCalled /\ trust_remote_code /\ ~config.is_using_user_token)
    => /\ conv_result = [returned |-> TRUE, value |-> <<FALSE, TrustErrorMsg>>]
       /\ child = <<>>
       /\ ~Happened("subprocess.run")

C2_Witness ==
  /\ ConvertCalled
  /\ trust_remote_code
  /\ ~config.is_using_user_token
  /\ conv_result.returned

\* C3: a subprocess started with --trust_remote_code gets the operator's token
\* as HF_TOKEN; is_using_user_token is true exactly when hf_token is the
\* operator's token.
C3_TrustFlagOnlyWithUserToken ==
  /\ \A i \in DOMAIN child :
       "--trust_remote_code" \in Range(child[i].cmd.extra)
         => /\ Truthy(user_token)
            /\ child[i].env.HF_TOKEN = user_token
            /\ config.is_using_user_token
  /\ config /= NoConfig
       => /\ config.is_using_user_token <=> (config.hf_token = user_token)
          /\ ~config.is_using_user_token => config.hf_token = system_token

C3_Witness ==
  /\ child /= <<>>
  /\ "--trust_remote_code" \in Range(child[1].cmd.extra)
  /\ Truthy(system_token)
  /\ system_token /= user_token

\* C4: the destination id is username/modelName when the username is the first
\* segment of the source id and reuse is opted in, and username/modelName-ONNX
\* in every other case; modelName is the last segment of the source id.
C4_DestinationNaming ==
  input_model_id /= <<>> =>
    LET id == input_model_id
        slashes == {i \in 1..Len(id) : id[i] = "/"}
        first == IF slashes = {} THEN id
                 ELSE SubSeq(id, 1, (CHOOSE i \in slashes : \A j \in slashes : i <= j) - 1)
        last == IF slashes = {} THEN id
                ELSE SubSeq(id, (CHOOSE i \in slashes : \A j \in slashes : i >= j) + 1, Len(id))
        plain == config.hf_username \o <<"/">> \o last
    IN  /\ (config.hf_username = first /\ reuse) => output_model_id = plain
        /\ ~(config.hf_username = first /\ reuse)
             => output_model_id = plain \o <<"-", "O", "N", "N", "X">>
        /\ same_repo <=> (config.hf_username = first /\ reuse)

C4_Witness ==
  /\ input_model_id = <<"a", "/", "b">>
  /\ config.hf_username = <<"a">>
  /\ reuse
  /\ output_model_id = <<"a", "/", "b">>

\* C5: when sameRepository is false and the registry reports that the
\* destination exists, the run ends reporting the existing destination and
\* neither the conversion subprocess nor create_repo/upload_folder is invoked.
C5_ExistingDestinationShortCircuits ==
  (~same_repo /\ Happened("repo_exists:True"))
    => /\ pc = "done"
       /\ Happened("st.write:already converted")
       /\ child = <<>>
       /\ \A e \in Range(trace) :
            e \notin {"subprocess.run", "create_repo", "upload_folder:readme",
                      "upload_folder:no_readme", "upload_folder:absent"}
       /\ conv_result = NotReturned
       /\ upload_result = NoUpload

C5_Witness ==
  /\ ~same_repo
  /\ Happened("repo_exists:True")
  /\ registry = "existing"
  /\ pc = "done"

\* C6 (as stated): with the source namespace equal to the username, reuse
\* opted in and the destination already on the registry, the run reports
\* "already converted" and does not invoke the conversion.
C6_SameRepoExistingReported ==
  (pc = "done" /\ input_model_id /= <<>> /\ same_repo /\ reuse
     /\ config.hf_username = Split(input_model_id)[1] /\ registry = "existing")
    => /\ Happened("st.write:already converted")
       /\ child = <<>>

\* C6 (amended): in such a run the registry is not asked and "already
\* converted" is never reported; the destination URL is shown, and once the
\* operator has pressed Proceed convert_model is called as for a new
\* destination: the subprocess is started unless the trust check rejects.
C6_SameRepoExistingProceeds ==
  (same_repo /\ registry = "existing")
    => /\ ~Happened("st.write:already converted")
       /\ \A e \in Range(trace) :
            e \notin {"repo_exists:True", "repo_exists:False", "repo_exists:raise"}
       /\ pc \notin {"from_env", "setup", "input", "check"} => Happened("st.code:url")
       /\ (ConvertCalled /\ (trust_remote_code => config.is_using_user_token))
            => Len(child) = 1

C6_Witness ==
  /\ same_repo
  /\ reuse
  /\ registry = "existing"
  /\ pc = "done"
  /\ Len(child) = 1
  /\ upload_result.returned

\* C7: after every call of upload_model, whatever it returns and whichever of
\* its steps failed, the output directory no longer exists.
C7_OutputDirRemovedAfterUpload ==
  UploadCalled => model_dir = "absent"

C7_Witness ==
  /\ UploadCalled
  /\ upload_result.returned
  /\ upload_result.value = "boom"
  /\ Happened("upload_folder:readme")

\* C8: when the conversion subprocess exits with a non-zero code,
\* convert_model returns (False, stderr), the run stops, and upload_model is
\* never invoked.
C8_NonZeroExitStopsRun ==
  (proc.ran /\ ~proc.raises /\ proc.returncode /= 0)
    => /\ conv_result = [returned |-> TRUE, value |-> <<FALSE, proc.stderr>>]
       /\ pc = "done"
       /\ upload_result = NoUpload
       /\ upload_steps = <<>>
       /\ \A e \in Range(trace) :
            e \notin {"create_repo", "open:README.md", "write:README.md",
                      "upload_folder:readme", "upload_folder:no_readme",
                      "upload_folder:absent", "rmtree"}

C8_Witness ==
  /\ proc.ran
  /\ ~proc.raises
  /\ proc.returncode = 1
  /\ proc.stderr = "OOM"
  /\ pc = "done"

\* C9: setup_repository called while the toolchain path exists returns
\* normally with no probe or download and no change on the filesystem; a
\* provisioning failure occurs only in a call that started without a
\* checkout, and an existing checkout is never altered.
C9_SetupIdempotent ==
  [][pc = "setup" =>
       /\ repo_path_exists
            => /\ pc' = "input"
               /\ trace' = trace
               /\ error' = error
               /\ fsVars' = fsVars
       /\ error' /= NoError => ~repo_path_exists
       /\ repo_path_exists => repo_path_exists']_vars

C9_Witness ==
  /\ pc = "input"
  /\ repo_path_exists
  /\ ~Happened("urlopen")

\* C10: convert_model never raises: every call returns a pair, and an
\* exception of the child's spawn or communication becomes (False, message).
C10_ConvertNeverRaises ==
  /\ conv_raised = NoError
  /\ ConvertCalled
       => /\ conv_result.returned
          /\ conv_result.value[1] \in BOOLEAN
          /\ error = NoError
  /\ (proc.ran /\ proc.raises)
       => conv_result = [returned |-> TRUE, value |-> <<FALSE, proc.msg>>]

C10_Witness ==
  /\ proc.ran
  /\ proc.raises
  /\ proc.msg = "boom"
  /\ conv_result.returned

\* the exception urlretrieve or _extract_archive raised inside setup_repository
SetupFailed == setup_met.called /\ (setup_met.dl.raises \/ setup_met.ex.raises)
SetupCauseMsg == IF setup_met.dl.raises THEN setup_met.dl.msg ELSE setup_met.ex.msg

\* C11: on every exit path of a setup_repository call that passed the
\* existence check the temporary archive is absent when the call ends, and
\* every download or extraction failure reaches the caller as the
\* RuntimeError that wraps the message of its cause.
C11_ArchiveRemovedAndFailureWrapped ==
  (setup_met.called /\ pc /= "setup")
    => /\ ~archive_exists
       /\ Happened("unlink")
       /\ SetupFailed
            => /\ error = Exc("RuntimeError", SetupErrorPrefix, SetupCauseMsg)
               /\ pc = "done"
       /\ ~SetupFailed => (error.type /= "RuntimeError" /\ repo_path_exists)

C11_Witness ==
  /\ setup_met.called
  /\ ~setup_met.dl.raises
  /\ setup_met.dl.wrote
  /\ setup_met.ex.raises
  /\ setup_met.ex.at = "rename"
  /\ pc = "done"
  /\ ~archive_exists

\* the calls of each stage as they appear in trace
SetupEvents ==
  {"urlopen", "urlretrieve:tags", "urlretrieve:heads", "tar.extractall", "rename", "unlink"}
UploadEvents ==
  {"create_repo", "open:README.md", "write:README.md", "upload_folder:readme",
   "upload_folder:no_readme", "upload_folder:absent", "rmtree"}
Positions(events) == {i \in DOMAIN trace : trace[i] \in events}
Before(first, second) ==
  \A i \in Positions(first) : \A j \in Positions(second) : i < j

\* C12: the stages run in the order provisioning, conversion, publish and none
\* is entered twice: the subprocess is started only after setup_repository
\* returned normally, with the toolchain path present, and upload_model runs
\* only after convert_model returned success in the same run.
C12_StagesInOrder ==
  /\ Before(SetupEvents, {"subprocess.run"})
  /\ Before(SetupEvents \cup {"subprocess.run"}, UploadEvents)
  /\ Cardinality(Positions({"urlopen"})) <= 1
  /\ Cardinality(Positions({"subprocess.run"})) <= 1
  /\ Cardinality(Positions({"create_repo"})) <= 1
  /\ Happened("subprocess.run")
       => /\ repo_path_exists
          /\ ~SetupFailed
          /\ pc \in {"upload", "done"}
  /\ Positions(UploadEvents) /= {}
       => /\ Happened("subprocess.run")
          /\ conv_result.returned
          /\ conv_result.value[1]
          /\ pc = "done"

C12_Witness ==
  /\ Happened("rename")
  /\ Happened("subprocess.run")
  /\ Happened("upload_folder:readme")
  /\ pc = "done"

\* the calls that go over the network
NetworkEvents ==
  {"whoami", "urlopen", "urlretrieve:tags", "urlretrieve:heads", "repo_exists:True",
   "repo_exists:False", "repo_exists:raise", "create_repo", "upload_folder:readme",
   "upload_folder:no_readme", "upload_folder:absent"}

\* trust_remote_code has been requested and the token is not the operator's
TrustWithoutUserToken ==
  /\ pc \notin {"from_env", "setup", "input"}
  /\ trust_remote_code
  /\ ~config.is_using_user_token

\* C13 (as stated): a run that requests elevated trust without an operator
\* credential is rejected before any subprocess is started and before any
\* network call is made.
C13_TrustRejectedBeforeAnyCall ==
  TrustWithoutUserToken
    => /\ Positions(NetworkEvents) = {}
       /\ ~Happened("subprocess.run")

\* C13 (amended): such a run starts no subprocess and makes no create_repo or
\* upload_folder call; when it reaches convert_model it is rejected there.
\* The identity lookup, the archive probe and download and the repo_exists
\* query come before the rejection.
C13_TrustRejectedBeforeSubprocessAndPublish ==
  TrustWithoutUserToken
    => /\ child = <<>>
       /\ ~Happened("subprocess.run")
       /\ Positions(UploadEvents) = {}
       /\ registry /= "created"
       /\ ConvertCalled
            => /\ conv_result = [returned |-> TRUE, value |-> <<FALSE, TrustErrorMsg>>]
               /\ pc = "done"
               /\ trace[Len(trace)] = "st.error:Conversion failed"
               /\ Before(NetworkEvents, {"st.error:Conversion failed"})

C13_Witness ==
  /\ TrustWithoutUserToken
  /\ ConvertCalled
  /\ Happened("whoami")
  /\ Happened("urlretrieve:tags")
  /\ Happened("repo_exists:False")
  /\ conv_result.returned

\* C14: when sameRepository is true the existence query for the destination
\* is never issued, and the existence check lets the run go on to the
\* confirmation (and from there to conversion and upload) whether or not the
\* destination repository exists.
C14_SameRepoSkipsExistenceCheck ==
  /\ [](same_repo => Positions({"repo_exists:True", "repo_exists:False",
                                "repo_exists:raise"}) = {})
  /\ [][(pc = "check" /\ same_repo)
          => /\ pc' = "confirm"
             /\ trace' = Append(trace, "st.code:url")
             /\ error' = error
             /\ registry' = registry]_vars

C14_Witness ==
  /\ same_repo
  /\ registry = "existing"
  /\ Happened("subprocess.run")
  /\ Happened("upload_folder:readme")
  /\ upload_result = [returned |-> TRUE, value |-> None]

\* the calls that start a step of upload_model
UploadStepEvents ==
  {"create_repo", "open:README.md", "upload_folder:readme", "upload_folder:no_readme",
   "upload_folder:absent"}

\* C15: upload_model never raises; it returns None exactly when create_repo,
\* the README step and upload_folder all completed, and otherwise the message
\* of the first exception, with no step executed after the failing one.
C15_UploadReturnsFirstError ==
  UploadCalled
    => /\ upload_result.returned
       /\ error = NoError
       /\ LET n == Len(upload_steps)
          IN  /\ n >= 1
              /\ Cardinality(Positions(UploadStepEvents)) = n
              /\ \A i \in 1..(n - 1) : ~upload_steps[i].raises
              /\ (upload_result.value = None) <=> ~upload_steps[n].raises
              /\ upload_steps[n].raises => upload_result.value = upload_steps[n].msg
              /\ ~upload_steps[n].raises
                   => /\ Happened("create_repo")
                      /\ Happened("upload_folder:readme")

C15_Witness ==
  /\ UploadCalled
  /\ Len(upload_steps) = 2
  /\ upload_steps[2].raises
  /\ Happened("open:README.md")
  /\ upload_result = [returned |-> TRUE, value |-> "boom"]

\* C16: inside upload_model the steps come in the order create_repo, README
\* check, upload_folder, directory deletion; a README is written only when the
\* output directory has none, and upload_folder is only called on a directory
\* that contains a README.
C16_UploadStepOrder ==
  [][pc = "upload" =>
       LET new == SubSeq(trace', Len(trace) + 1, Len(trace'))
           at(events) == {i \in DOMAIN new : new[i] \in events}
           readme == at({"open:README.md", "write:README.md"})
           folder == at({"upload_folder:readme", "upload_folder:no_readme",
                         "upload_folder:absent"})
           removal == at({"rmtree"})
       IN  /\ at({"create_repo"}) = {1}
           /\ \A i \in readme : \A j \in folder : i < j
           /\ Cardinality(removal) = 1
           /\ \A i \in readme \cup folder : \A j \in removal : 1 < i /\ i < j
           /\ at({"write:README.md"}) /= {} => model_dir = "no_readme"
           /\ model_dir = "readme" => readme = {}
           /\ at({"upload_folder:no_readme", "upload_folder:absent"}) = {}
           /\ (folder /= {} /\ model_dir = "no_readme") => at({"write:README.md"}) /= {}
           /\ Cardinality(folder) <= 1]_vars

C16_Witness ==
  /\ pc = "done"
  /\ Happened("write:README.md")
  /\ Happened("upload_folder:readme")
  /\ Happened("rmtree")

\* C17 (as stated): all three stages turn the exceptions of their external
\* calls into result values, so none of them reaches the driver.
C17_NoStageExceptionReachesDriver ==
  /\ SetupFailed => error = NoError
  /\ conv_raised = NoError
  /\ ConvertCalled => conv_result.returned
  /\ UploadCalled => upload_result.returned

\* C17 (amended): convert_model and upload_model turn the exceptions of their
\* external calls into their return values; setup_repository catches a
\* download or extraction exception and raises it again as RuntimeError,
\* which reaches the driver and is handled by main's except clause.
C17_OnlyProvisioningRaises ==
  /\ conv_raised = NoError
  /\ ConvertCalled
       => /\ conv_result.returned
          /\ (proc.ran /\ proc.raises) => ~conv_result.value[1]
  /\ UploadCalled
       => /\ upload_result.returned
          /\ upload_steps[Len(upload_steps)].raises => upload_result.value /= None
  /\ error /= NoError
       => /\ pc = "done"
          /\ ~Happened("st.button:Proceed")
          /\ trace[Len(trace)] = "st.error:An error occurred"
  /\ pc /= "setup" => (SetupFailed <=> error.type = "RuntimeError")
  /\ SetupFailed => error = Exc("RuntimeError", SetupErrorPrefix, SetupCauseMsg)

C17_Witness ==
  /\ SetupFailed
  /\ setup_met.dl.raises
  /\ error.type = "RuntimeError"
  /\ error.msg = "boom"
  /\ pc = "done"

\* C18: every conversion subprocess is started with an environment of exactly
\* one variable, HF_TOKEN, holding the configured token; nothing of the
\* parent's environment is passed on.
C18_ChildEnvironmentIsTokenOnly ==
  \A i \in DOMAIN child :
    /\ DOMAIN child[i].env = {"HF_TOKEN"}
    /\ child[i].env.HF_TOKEN = config.hf_token
    /\ Truthy(child[i].env.HF_TOKEN)

C18_Witness ==
  /\ child /= <<>>
  /\ space_author /= <<>>
  /\ ~Truthy(user_token)
  /\ child[1].env = [HF_TOKEN |-> system_token]

\* C19: in a run that is not cut short the destination URL (which ends in the
\* destination id) is shown before the conversion, and the subprocess and the
\* publish actions happen only after the operator pressed Proceed, which comes
\* after that output.
C19_ShownAndConfirmedBeforeWork ==
  /\ \A k \in Positions({"subprocess.run"} \cup UploadEvents) :
       \E i \in Positions({"st.code:url"}) :
         \E j \in Positions({"st.button:Proceed"}) : i < j /\ j < k
  /\ Before({"st.code:url"}, {"st.button:Proceed"})
  /\ (pc \in {"confirm", "convert", "upload"} \/ conv_result.returned)
       => Happened("st.code:url")
  /\ (pc \in {"convert", "upload"} \/ conv_result.returned \/ upload_result.returned)
       => Happened("st.button:Proceed")
  /\ registry = "created" => Happened("st.button:Proceed")

C19_Witness ==
  /\ Happened("st.code:url")
  /\ Happened("st.button:Proceed")
  /\ Happened("subprocess.run")
  /\ Happened("create_repo")
  /\ registry = "created"

\* C20: a call of convert_model starts the subprocess at most once whatever
\* the outcome, a failed attempt is not made again, and a run calls
\* convert_model at most once.
C20_SingleConversionAttempt ==
  /\ Len(child) <= 1
  /\ Cardinality(Positions({"subprocess.run"})) = Len(child)
  /\ Cardinality(Positions({"st.button:Proceed"})) <= 1
  /\ Cardinality(Positions({"st.error:Conversion failed",
                            "st.success:Conversion successful"})) <= 1
  /\ proc.ran => Len(child) = 1
  /\ (conv_result.returned /\ conv_result.value /= <<FALSE, TrustErrorMsg>>)
       => Len(child) = 1

C20_Witness ==
  /\ Len(child) = 1
  /\ proc.ran
  /\ ~proc.raises
  /\ proc.returncode = 1
  /\ conv_result = [returned |-> TRUE, value |-> <<FALSE, "">>]
  /\ pc = "done"

====
